---- MODULE Spec2Model ----
(***************************************************************************)
(* MonoMind: the LangGraph pipeline of app/agents/graph.py, driven by the  *)
(* chat endpoint of app/api/routes.py with a per-thread checkpoint store,  *)
(* and the deterministic risk rules of app/services/risk_analyzer.py.      *)
(*                                                                         *)
(* Amounts are whole currency units.  Every whole number below 2^53 is a   *)
(* binary double, so float(tx.amount) keeps such an amount; ratios are     *)
(* compared by cross-multiplication.                                       *)
(***************************************************************************)
EXTENDS Integers, Sequences, FiniteSets, TLC

\* ------------------------------------------------------------------ bounds
\* Number of chat requests the model accepts in one behaviour.
MaxRequests == 2

\* Concurrent request handlers (asyncio tasks of the FastAPI event loop).
Tasks == {1, 2}

Requests == 1..MaxRequests

\* ------------------------------------------------- optional values (Python)
\* A state key that was never written (state.get returns its default).
Absent == [k |-> "absent"]
\* A key written with Python's None.
PyNone == [k |-> "None"]
Some(x) == [k |-> "some", v |-> x]

\* state.get(key, default)
Get(x, default) == IF x.k = "absent" THEN default ELSE x

\* --------------------------------------------------------------- the graph
Intents == {"get_balance", "analyze_runway", "evaluate_purchase", "general_chat"}

Nodes == {"translate_input", "analyze_intent", "fetch_ledger_data",
          "run_math_engine", "extract_purchase_info", "fetch_market_price",
          "analyze_purchase_risk", "generate_final_response"}

\* The channels of AgentState before any write.
EmptyState ==
  [messages |-> <<>>, user_id |-> Absent, translated_text |-> Absent,
   intent |-> Absent, extracted_transactions |-> Absent,
   financial_result |-> Absent, metrics |-> Absent, purchase_data |-> Absent,
   purchase_risk |-> Absent, market_context |-> Absent]

Channels == DOMAIN EmptyState

\* Mutant: messages has no reducer and is replaced like every other channel.
Merge_without_reducer(state, upd) ==
  [c \in Channels |-> IF c \in DOMAIN upd THEN upd[c] ELSE state[c]]

\* The reducer of AgentState: messages is Annotated with operator.add, every
\* other channel keeps the last value written.
Merge(state, upd) ==
  [c \in Channels |->
     IF c \in DOMAIN upd
       THEN IF c = "messages" THEN state[c] \o upd[c] ELSE upd[c]
       ELSE state[c]]

HumanMessage(n) == [type |-> "human", req |-> n]
AIMessage(n) == [type |-> "ai", req |-> n]

\* chat_with_agent: the start state handed to the graph.
initial_state(n, uid) ==
  [messages |-> <<HumanMessage(n)>>, user_id |-> Some(uid), intent |-> PyNone,
   extracted_transactions |-> Some(<<>>), financial_result |-> PyNone]

\* chat_with_agent: config["configurable"]["thread_id"] = str(user_id)
thread_id(uid) == uid

\* Mutant: analyze_runway is routed past the ledger.
route_based_on_intent_runway_direct(state) ==
  IF state.intent \in {Some("get_balance"), Some("evaluate_purchase")}
    THEN "fetch_ledger_data"
    ELSE "generate_final_response"

route_based_on_intent(state) ==
  IF state.intent \in {Some("get_balance"), Some("analyze_runway"),
                       Some("evaluate_purchase")}
    THEN "fetch_ledger_data"
    ELSE "generate_final_response"

\* Mutant: no intent is routed into the purchase branch.
route_after_math_never_extract(state) == "generate_final_response"

\* Mutant: every intent is routed into the purchase branch.
route_after_math_always_extract(state) == "extract_purchase_info"

route_after_math(state) ==
  IF state.intent = Some("evaluate_purchase")
    THEN "extract_purchase_info"
    ELSE "generate_final_response"

\* workflow: entry point and edges.  "END" is LangGraph's END.
entry_point == "translate_input"

\* Mutant: a backward edge from the market lookup to the extractor.
workflow_retry_extraction(node, state) ==
  CASE node = "translate_input" -> "analyze_intent"
    [] node = "analyze_intent" -> route_based_on_intent(state)
    [] node = "fetch_ledger_data" -> "run_math_engine"
    [] node = "run_math_engine" -> route_after_math(state)
    [] node = "extract_purchase_info" -> "fetch_market_price"
    [] node = "fetch_market_price" ->
         IF state.market_context = Some("results[:1000]")
           THEN "analyze_purchase_risk" ELSE "extract_purchase_info"
    [] node = "analyze_purchase_risk" -> "generate_final_response"
    [] node = "generate_final_response" -> "END"

\* Mutant: the edge out of analyze_intent is unconditional.
workflow_always_fetch(node, state) ==
  CASE node = "translate_input" -> "analyze_intent"
    [] node = "analyze_intent" -> "fetch_ledger_data"
    [] node = "fetch_ledger_data" -> "run_math_engine"
    [] node = "run_math_engine" -> route_after_math(state)
    [] node = "extract_purchase_info" -> "fetch_market_price"
    [] node = "fetch_market_price" -> "analyze_purchase_risk"
    [] node = "analyze_purchase_risk" -> "generate_final_response"
    [] node = "generate_final_response" -> "END"

workflow(node, state) ==
  CASE node = "translate_input" -> "analyze_intent"
    [] node = "analyze_intent" -> route_based_on_intent(state)
    [] node = "fetch_ledger_data" -> "run_math_engine"
    [] node = "run_math_engine" -> route_after_math(state)
    [] node = "extract_purchase_info" -> "fetch_market_price"
    [] node = "fetch_market_price" -> "analyze_purchase_risk"
    [] node = "analyze_purchase_risk" -> "generate_final_response"
    [] node = "generate_final_response" -> "END"

\* ------------------------------------------------------------ node results
Update(upd) == [raised |-> FALSE, upd |-> upd]
Raise(exc) == [raised |-> TRUE, exc |-> exc]

\* ----------------------------------------------------------------- texts
\* messages[-1].content of the request's HumanMessage, and its translation.
Content(m) == [lang |-> "original", req |-> m.req]
Translated(t) == [lang |-> "en", req |-> t.req]
EmptyText == [lang |-> "empty", req |-> 0]

\* What GoogleTranslator.translate can do: raise, return a text equal to the
\* original up to case and surrounding blanks, or return a different text.
TranslatorOutcomes == {"EXC", "SAME", "DIFF"}

translate_user_input(state, out) ==
  IF state.messages = <<>>
    THEN Update([translated_text |-> Some(EmptyText)])
    ELSE LET original_text == Content(state.messages[Len(state.messages)])
         IN  IF out = "DIFF"
               THEN Update([translated_text |-> Some(Translated(original_text))])
               ELSE Update([translated_text |-> Some(original_text)])

\* What the router LLM can do: raise, answer text that is no JSON, answer a
\* JSON object without the key "intent", or one whose "intent" is the value.
RouterOutcomes == {"EXC", "NOT_JSON", "NO_KEY", "transfer_money"} \cup Intents

\* Mutant: the reply's intent is taken without validation.
analyze_intent_unvalidated(intent) == intent

analyze_intent_validate(intent) ==
  IF intent \notin Intents THEN "general_chat" ELSE intent

analyze_intent(state, out) ==
  IF out \in {"EXC", "NOT_JSON"}
    THEN Update([intent |-> Some("general_chat")])
    ELSE LET intent == IF out = "NO_KEY" THEN "general_chat" ELSE out
         IN  Update([intent |-> Some(analyze_intent_validate(intent))])

\* ----------------------------------------------------------------- binary64
\* A Python float that is a multiple of 2^-FracBits: [neg, mag], where mag is
\* the magnitude in units of 2^-FracBits as limbs of LimbBits bits, lowest
\* limb first, without leading zero limbs (0.0 is the empty sequence).  Every
\* operation computes its exact result and rounds it to 53 significant bits,
\* ties to even, as IEEE 754 binary64 does; results below 2^(53 - FracBits)
\* in magnitude, infinities and NaN lie outside the amounts modelled.
LimbBits == 15
LimbBase == 2^LimbBits
FracLimbs == 5
FracBits == FracLimbs * LimbBits
Precision == 53

Limb(x, i) == IF i <= Len(x) THEN x[i] ELSE 0

RECURSIVE Norm(_)
Norm(x) ==
  IF x = <<>> THEN <<>>
  ELSE IF x[Len(x)] = 0 THEN Norm(SubSeq(x, 1, Len(x) - 1)) ELSE x

RECURSIVE MagAddFrom(_, _, _, _)
MagAddFrom(x, y, i, carry) ==
  IF i > Len(x) /\ i > Len(y)
    THEN IF carry = 0 THEN <<>> ELSE <<carry>>
    ELSE LET s == Limb(x, i) + Limb(y, i) + carry
         IN  <<s % LimbBase>> \o MagAddFrom(x, y, i + 1, s \div LimbBase)

MagAdd(x, y) == MagAddFrom(x, y, 1, 0)

\* x - y for x >= y.
RECURSIVE MagSubFrom(_, _, _, _)
MagSubFrom(x, y, i, borrow) ==
  IF i > Len(x) THEN <<>>
  ELSE LET d == x[i] - Limb(y, i) - borrow
       IN  IF d < 0
             THEN <<d + LimbBase>> \o MagSubFrom(x, y, i + 1, 1)
             ELSE <<d>> \o MagSubFrom(x, y, i + 1, 0)

MagSub(x, y) == Norm(MagSubFrom(x, y, 1, 0))

RECURSIVE MagLessFrom(_, _, _)
MagLessFrom(x, y, i) ==
  IF i = 0 THEN FALSE
  ELSE IF x[i] # y[i] THEN x[i] < y[i]
  ELSE MagLessFrom(x, y, i - 1)

MagLess(x, y) ==
  IF Len(x) # Len(y) THEN Len(x) < Len(y) ELSE MagLessFrom(x, y, Len(x))

BitLen(x) ==
  IF x = <<>> THEN 0
  ELSE (Len(x) - 1) * LimbBits
         + (CHOOSE k \in 1..LimbBits : 2^(k - 1) <= x[Len(x)] /\ x[Len(x)] < 2^k)

\* Bit k of x (bit 0 is the lowest).
Bit(x, k) == (Limb(x, k \div LimbBits + 1) \div 2^(k % LimbBits)) % 2

\* 2^k as a magnitude.
MagPow2(k) == [i \in 1..(k \div LimbBits) |-> 0] \o <<2^(k % LimbBits)>>

\* x with its d lowest bits cleared.
ClearLow(x, d) ==
  [i \in 1..Len(x) |->
     IF i <= d \div LimbBits THEN 0
     ELSE IF i = d \div LimbBits + 1 THEN x[i] - (x[i] % 2^(d % LimbBits))
     ELSE x[i]]

\* Round to nearest, ties to even, at 53 significant bits; sticky tells that
\* the exact value lies above x by less than one unit of x.
RoundMag(x, sticky) ==
  LET d == BitLen(x) - Precision
  IN  IF d <= 0 THEN x
      ELSE LET guard == Bit(x, d - 1) = 1
               rest == sticky \/ \E k \in 0..(d - 2) : Bit(x, k) = 1
               odd == Bit(x, d) = 1
               down == ClearLow(x, d)
           IN  IF guard /\ (rest \/ odd) THEN MagAdd(down, MagPow2(d)) ELSE down

F64(neg, mag) == [neg |-> neg /\ mag # <<>>, mag |-> mag]

\* x + y and x - y of two floats.
float_add(x, y) ==
  IF x.neg = y.neg
    THEN F64(x.neg, RoundMag(MagAdd(x.mag, y.mag), FALSE))
    ELSE IF MagLess(x.mag, y.mag)
      THEN F64(y.neg, RoundMag(MagSub(y.mag, x.mag), FALSE))
      ELSE F64(x.neg, RoundMag(MagSub(x.mag, y.mag), FALSE))

float_sub(x, y) == float_add(x, F64(~y.neg, y.mag))

\* x < y and x > y of two floats.
float_less(x, y) ==
  IF x.neg # y.neg THEN x.neg
  ELSE IF x.neg THEN MagLess(y.mag, x.mag) ELSE MagLess(x.mag, y.mag)

float_greater(x, y) == float_less(y, x)

\* A natural number below 2^31 as a magnitude in units of one.
NatMag(n) ==
  Norm(<<n % LimbBase, (n \div LimbBase) % LimbBase,
         n \div (LimbBase * LimbBase)>>)

\* x \div k with its remainder, for 0 < k <= 2^16, from limb i downwards.
RECURSIVE MagDivSmall(_, _, _, _)
MagDivSmall(x, k, i, r) ==
  IF i = 0 THEN [q |-> <<>>, r |-> r]
  ELSE LET cur == r * LimbBase + x[i]
           low == MagDivSmall(x, k, i - 1, cur % k)
       IN  [q |-> Append(low.q, cur \div k), r |-> low.r]

\* Transaction.amount is Numeric(14, 4): a decimal is held as its number of
\* ten-thousandths.
DecimalPlaces == 4

\* float(Decimal): the float nearest to n / 10^DecimalPlaces.
float_of_decimal(n) ==
  IF n = 0 THEN F64(FALSE, <<>>)
  ELSE LET abs == IF n < 0 THEN 0 - n ELSE n
           num == [i \in 1..(FracLimbs + 1) |-> 0] \o NatMag(abs)
           d == MagDivSmall(num, 10^DecimalPlaces, Len(num), 0)
       IN  F64(n < 0, Tail(RoundMag(Norm(d.q), d.r # 0)))

\* ---------------------------------------------------------------- ledger
TxTypes == {"DEPOSIT", "WITHDRAWAL", "SUBSCRIPTION"}

Tx(uid, type, amount) == [user_id |-> uid, tx_type |-> type, amount |-> amount]

RECURSIVE SelectUser(_, _)
SelectUser(rows, uid) ==
  IF rows = <<>> THEN <<>>
  ELSE LET tx == Head(rows)
           rest == SelectUser(Tail(rows), uid)
       IN  IF tx.user_id = uid
             THEN <<[amount |-> tx.amount, tx_type |-> tx.tx_type]>> \o rest
             ELSE rest

LedgerOutcomes == {"OK", "EXC"}

\* Mutant: a failure of the store is absorbed as an empty ledger.
fetch_ledger_data_absorbing(state, rows, out) ==
  IF out = "EXC"
    THEN Update([extracted_transactions |-> Some(<<>>)])
    ELSE Update([extracted_transactions |->
                   Some(SelectUser(rows, state.user_id.v))])

fetch_ledger_data(state, rows, out) ==
  IF out = "EXC"
    THEN Raise("LedgerStoreError")
    ELSE Update([extracted_transactions |->
                   Some(SelectUser(rows, state.user_id.v))])

\* The loop of run_math_engine over the first i transactions.
RECURSIVE math_loop(_, _)
math_loop(transactions, i) ==
  IF i = 0
    THEN [total_spent |-> 0, total_income |-> 0, balance |-> 0]
    ELSE LET acc == math_loop(transactions, i - 1)
             tx == transactions[i]
             amount == tx.amount
         IN  IF tx.tx_type = "DEPOSIT"
               THEN [acc EXCEPT !.balance = @ + amount,
                                !.total_income = @ + amount]
               ELSE [acc EXCEPT !.balance = @ - amount,
                                !.total_spent = @ + amount]

\* runway_months is the quotient num / den (0.0 is 0 / 1).
run_math_engine(state) ==
  LET transactions == Get(state.extracted_transactions, Some(<<>>)).v
      acc == math_loop(transactions, Len(transactions))
      runway_months == IF acc.total_spent > 0
                         THEN [num |-> acc.balance, den |-> acc.total_spent]
                         ELSE [num |-> 0, den |-> 1]
  IN  Update([financial_result |-> Some(acc.balance),
              metrics |-> Some([burn_rate |-> acc.total_spent,
                                monthly_income |-> acc.total_income,
                                runway_months |-> runway_months])])

\* The same two definitions for amounts with a fractional part: every sum of
\* the loop is a float sum (for whole amounts its result is that of math_loop).
float_zero == F64(FALSE, <<>>)

\* fetch_ledger_data's list comprehension: "amount": float(tx.amount).
extracted(rows) ==
  [i \in 1..Len(rows) |->
     [amount |-> float_of_decimal(rows[i].amount), tx_type |-> rows[i].tx_type]]

RECURSIVE math_loop_float(_, _)
math_loop_float(transactions, i) ==
  IF i = 0
    THEN [total_spent |-> float_zero, total_income |-> float_zero,
          balance |-> float_zero]
    ELSE LET acc == math_loop_float(transactions, i - 1)
             tx == transactions[i]
             amount == tx.amount
         IN  IF tx.tx_type = "DEPOSIT"
               THEN [acc EXCEPT !.balance = float_add(@, amount),
                                !.total_income = float_add(@, amount)]
               ELSE [acc EXCEPT !.balance = float_sub(@, amount),
                                !.total_spent = float_add(@, amount)]

\* Mutant: without spending the runway is the balance.
run_math_engine_float_runway_is_balance(state) ==
  LET transactions == Get(state.extracted_transactions, Some(<<>>)).v
      acc == math_loop_float(transactions, Len(transactions))
      runway_months == IF float_greater(acc.total_spent, float_zero)
                         THEN [num |-> acc.balance, den |-> acc.total_spent]
                         ELSE [num |-> acc.balance, den |-> float_of_decimal(10000)]
  IN  Update([financial_result |-> Some(acc.balance),
              metrics |-> Some([burn_rate |-> acc.total_spent,
                                monthly_income |-> acc.total_income,
                                runway_months |-> runway_months])])

\* Mutant: the balance is accumulated on top of the one already in the state.
run_math_engine_float_accumulating(state) ==
  LET transactions == Get(state.extracted_transactions, Some(<<>>)).v
      acc == math_loop_float(transactions, Len(transactions))
      balance == float_add(Get(state.financial_result, Some(float_zero)).v,
                           acc.balance)
      runway_months == IF float_greater(acc.total_spent, float_zero)
                         THEN [num |-> balance, den |-> acc.total_spent]
                         ELSE [num |-> float_zero, den |-> float_of_decimal(10000)]
  IN  Update([financial_result |-> Some(balance),
              metrics |-> Some([burn_rate |-> acc.total_spent,
                                monthly_income |-> acc.total_income,
                                runway_months |-> runway_months])])

\* runway_months is the quotient num / den (0.0 is 0.0 / 1.0).
run_math_engine_float(state) ==
  LET transactions == Get(state.extracted_transactions, Some(<<>>)).v
      acc == math_loop_float(transactions, Len(transactions))
      runway_months == IF float_greater(acc.total_spent, float_zero)
                         THEN [num |-> acc.balance, den |-> acc.total_spent]
                         ELSE [num |-> float_zero, den |-> float_of_decimal(10000)]
  IN  Update([financial_result |-> Some(acc.balance),
              metrics |-> Some([burn_rate |-> acc.total_spent,
                                monthly_income |-> acc.total_income,
                                runway_months |-> runway_months])])

\* ------------------------------------------------------ purchase extraction
\* PurchaseExtraction: credit_months is Optional[int] without a lower bound.
Purchase(name, price, credit, months) ==
  [item_name |-> name, item_price |-> price, is_credit |-> credit,
   credit_months |-> months]

\* The replies of the structured LLM the model draws from (the schema allows
\* every item_price and every credit_months, None included).
PurchaseExtractions ==
  { Purchase("PS5", 700, FALSE, Some(1)),
    Purchase("PS5", 3000, TRUE, Some(6)),
    Purchase("PS5", 3000, TRUE, PyNone) }

ExtractorOutcomes ==
  {[raises |-> TRUE]} \cup {[raises |-> FALSE, result |-> p] : p \in PurchaseExtractions}

extract_purchase_fallback == Purchase("unknown item", 0, FALSE, Some(1))

\* Mutant: the extractor call is not guarded by try/except.
extract_purchase_info_unguarded(state, out) ==
  IF out.raises
    THEN Raise("ExtractorError")
    ELSE Update([purchase_data |-> Some(out.result)])

extract_purchase_info(state, out) ==
  IF out.raises
    THEN Update([purchase_data |-> Some(extract_purchase_fallback)])
    ELSE Update([purchase_data |-> Some(out.result)])

\* ------------------------------------------------------------ market lookup
\* What DuckDuckGoSearchRun.invoke can do: raise, return nothing, return text.
SearchOutcomes == {"EXC", "EMPTY", "RESULTS"}

\* Mutant: the search is made for every item name.
market_search_skipped_never(state) == FALSE

\* fetch_market_price returns before the search for a missing item name.
market_search_skipped(state) ==
  LET data == Get(state.purchase_data, Some([item_name |-> ""])).v
  IN  data.item_name = "" \/ data.item_name = "unknown item"

fetch_market_price(state, out) ==
  IF market_search_skipped(state)
    THEN Update([market_context |-> Some("No market data available.")])
    ELSE CASE out = "EXC" ->
                Update([market_context |->
                   Some("Could not fetch market data due to search error.")])
           [] out = "EMPTY" ->
                Update([market_context |->
                   Some("No clear pricing found online.")])
           [] out = "RESULTS" ->
                Update([market_context |-> Some("results[:1000]")])

\* ------------------------------------------------------------ risk analyzer
RiskAnalyzer(monthly_income, monthly_expenses, current_balance) ==
  [monthly_income |-> monthly_income, monthly_expenses |-> monthly_expenses,
   current_balance |-> current_balance,
   free_cash_flow |-> monthly_income - monthly_expenses]

Verdict(risky, reason, details) ==
  [raised |-> FALSE,
   verdict |-> [is_risky |-> risky, reason |-> reason, details |-> details]]

\* Mutant: a ratio of exactly 0.8 exceeds the threshold.
dti_reaches(num, den) ==
  IF den > 0 THEN 5 * num >= 4 * den ELSE 5 * num <= 4 * den

\* Mutant: the debt-to-income check never fires.
dti_exceeds_never(num, den) == FALSE

\* dti_ratio > 0.8, where dti_ratio = (monthly_expenses + item_price /
\* credit_months) / monthly_income = num / den with den # 0.
dti_exceeds(num, den) ==
  IF den > 0 THEN 5 * num > 4 * den ELSE 5 * num < 4 * den

\* Mutant: the payment is never found to exceed the free cash flow.
below_payment_never(free_cash_flow, item_price, credit_months) == FALSE

\* free_cash_flow < item_price / credit_months, with credit_months # 0.
below_payment(free_cash_flow, item_price, credit_months) ==
  IF credit_months > 0
    THEN free_cash_flow * credit_months < item_price
    ELSE free_cash_flow * credit_months > item_price

\* Mutant: the cash-flow check is evaluated before the funds check.
assess_outright_cashflow_first(self, item_price) ==
  IF item_price > self.free_cash_flow
    THEN Verdict(TRUE, "cashflow_warning",
                 <<"Remaining", self.free_cash_flow - item_price>>)
    ELSE IF item_price > self.current_balance
      THEN Verdict(TRUE, "critical_funds",
                   <<"Insufficient funds", self.current_balance, item_price>>)
      ELSE Verdict(FALSE, "safe", <<"absolutely safe">>)

\* Mutant: a price equal to the free cash flow is a cash-flow warning.
assess_outright_equal_warns(self, item_price) ==
  IF item_price > self.current_balance
    THEN Verdict(TRUE, "critical_funds",
                 <<"Insufficient funds", self.current_balance, item_price>>)
    ELSE IF item_price >= self.free_cash_flow
      THEN Verdict(TRUE, "cashflow_warning",
                   <<"Remaining", self.free_cash_flow - item_price>>)
      ELSE Verdict(FALSE, "safe", <<"absolutely safe">>)

\* Scenario 1 of assess_purchase_risk: no credit.
assess_outright(self, item_price) ==
  IF item_price > self.current_balance
    THEN Verdict(TRUE, "critical_funds",
                 <<"Insufficient funds", self.current_balance, item_price>>)
    ELSE IF item_price > self.free_cash_flow
      THEN Verdict(TRUE, "cashflow_warning",
                   <<"Remaining", self.free_cash_flow - item_price>>)
      ELSE Verdict(FALSE, "safe", <<"absolutely safe">>)

\* Mutant: a payment above the free cash flow is reported as not risky.
assess_credit_cashflow_not_risky(self, item_price, credit_months) ==
  IF credit_months.k # "some" THEN Raise("TypeError")
  ELSE IF credit_months.v = 0 THEN Raise("ZeroDivisionError")
  ELSE IF self.monthly_income = 0 THEN Raise("ZeroDivisionError")
  ELSE LET months == credit_months.v
           num == self.monthly_expenses * months + item_price
           den == self.monthly_income * months
       IN  IF dti_exceeds(num, den)
             THEN Verdict(TRUE, "dti_critical", <<"dti", num, den>>)
             ELSE IF below_payment(self.free_cash_flow, item_price, months)
               THEN Verdict(FALSE, "negative_cashflow",
                            <<"payment", self.free_cash_flow, item_price, months>>)
               ELSE Verdict(FALSE, "manageable_credit",
                            <<"payment", item_price, months>>)

\* Scenario 2 of assess_purchase_risk: credit.  The two divisions raise on
\* None (TypeError) and on zero (ZeroDivisionError).
assess_credit(self, item_price, credit_months) ==
  IF credit_months.k # "some" THEN Raise("TypeError")
  ELSE IF credit_months.v = 0 THEN Raise("ZeroDivisionError")
  ELSE IF self.monthly_income = 0 THEN Raise("ZeroDivisionError")
  ELSE LET months == credit_months.v
           num == self.monthly_expenses * months + item_price
           den == self.monthly_income * months
       IN  IF dti_exceeds(num, den)
             THEN Verdict(TRUE, "dti_critical", <<"dti", num, den>>)
             ELSE IF below_payment(self.free_cash_flow, item_price, months)
               THEN Verdict(TRUE, "negative_cashflow",
                            <<"payment", self.free_cash_flow, item_price, months>>)
               ELSE Verdict(FALSE, "manageable_credit",
                            <<"payment", item_price, months>>)

assess_purchase_risk(self, item_name, item_price, is_credit, credit_months) ==
  IF ~is_credit
    THEN assess_outright(self, item_price)
    ELSE assess_credit(self, item_price, credit_months)

\* Mutant: a purchase without market data is reported as risky.
analyze_purchase_risk_market_aware(state) ==
  LET data == Get(state.purchase_data,
                  Some(Purchase("item", 0, FALSE, Some(1)))).v
      metrics == Get(state.metrics,
                     Some([monthly_income |-> 0, burn_rate |-> 0]))
      real_balance == Get(state.financial_result, Some(0))
  IN  IF metrics.k # "some" THEN Raise("AttributeError")
      ELSE IF real_balance.k # "some" /\ ~data.is_credit THEN Raise("TypeError")
      ELSE LET analyzer == RiskAnalyzer(metrics.v.monthly_income,
                                        metrics.v.burn_rate,
                                        IF real_balance.k = "some"
                                          THEN real_balance.v ELSE 0)
               res == assess_purchase_risk(analyzer, data.item_name,
                        data.item_price, data.is_credit, data.credit_months)
           IN  IF res.raised THEN res
               ELSE IF state.market_context # Some("results[:1000]")
                 THEN Update([purchase_risk |->
                                Some([res.verdict EXCEPT !.is_risky = TRUE])])
                 ELSE Update([purchase_risk |-> Some(res.verdict)])

\* The node: a missing purchase_data reads as {} and the defaults of data.get
\* apply; metrics and financial_result are read as run_math_engine left them.
analyze_purchase_risk(state) ==
  LET data == Get(state.purchase_data,
                  Some(Purchase("item", 0, FALSE, Some(1)))).v
      metrics == Get(state.metrics,
                     Some([monthly_income |-> 0, burn_rate |-> 0]))
      real_balance == Get(state.financial_result, Some(0))
  IN  IF metrics.k # "some" THEN Raise("AttributeError")
      ELSE IF real_balance.k # "some" /\ ~data.is_credit THEN Raise("TypeError")
      ELSE LET analyzer == RiskAnalyzer(metrics.v.monthly_income,
                                        metrics.v.burn_rate,
                                        IF real_balance.k = "some"
                                          THEN real_balance.v ELSE 0)
               res == assess_purchase_risk(analyzer, data.item_name,
                        data.item_price, data.is_credit, data.credit_months)
           IN  IF res.raised THEN res
               ELSE Update([purchase_risk |-> Some(res.verdict)])

\* ----------------------------------------------------------------- composer
ComposerOutcomes == {"OK", "EXC"}

\* The f-string of every branch formats balance with :.2f, which raises
\* TypeError on None; the other values are read with dict.get.
compose_prompt(state) ==
  LET balance == Get(state.financial_result, Some(0))
      intent == Get(state.intent, Some("general_chat"))
  IN  IF balance.k # "some"
        THEN Raise("TypeError")
        ELSE Update([intent |-> intent, balance |-> balance.v])

generate_final_response(state, out, n) ==
  LET prompt == compose_prompt(state)
  IN  IF prompt.raised THEN prompt
      ELSE IF out = "EXC" THEN Raise("ComposerError")
      ELSE Update([messages |-> <<AIMessage(n)>>])

\* ------------------------------------------------------------ chat endpoint
\* The user ids chat requests carry (the Telegram client always sends 1).
ChatUsers == {1, 2}

\* chat_with_agent, after ainvoke returned final_state.  ChatResponse.intent is
\* a str field: None fails validation and is answered as an error.
ChatResponse(final_state) ==
  LET intent == Get(final_state.intent, Some("unknown"))
      final_message == final_state.messages[Len(final_state.messages)]
  IN  IF intent.k # "some"
        THEN [status |-> 500, detail |-> "ValidationError"]
        ELSE [status |-> 200, intent |-> intent.v, response |-> final_message]

\* chat_with_agent, except branch.
HTTPException500(exc) == [status |-> 500, detail |-> exc]

NoResponse == [status |-> 0]

\* ------------------------------------------------------------------- state
Collaborators == {"translator", "classifier", "ledger", "extractor",
                  "market", "composer"}

NotCalled == [c \in Collaborators |-> "-"]

NoError == [node |-> "", exc |-> ""]

\* The ledger rows the store holds when the model starts: nothing, or the
\* three transactions of user 1 (1000 in, 300 and 50 out) beside a row of
\* another user.
LedgerStates ==
  { <<>>,
    <<Tx(1, "DEPOSIT", 1000), Tx(2, "DEPOSIT", 5000),
      Tx(1, "WITHDRAWAL", 300), Tx(1, "SUBSCRIPTION", 50)>> }

VARIABLES
  db,          \* rows of the transactions table
  users,       \* rows of the users table
  checkpoint,  \* thread id -> channel values of the latest checkpoint
  accepted,    \* number of chat requests accepted so far
  pc,          \* task -> "idle", the node to run next, "END" or "error"
  req,         \* task -> number of the request it serves (0: none)
  st,          \* task -> channel values of its run
  trace,       \* task -> nodes its run has invoked, in order
  collab,      \* task -> collaborator -> "-", "ok" or "failed"
  raised,      \* task -> the exception that ended its run
  response,    \* request -> what the endpoint answered
  call,        \* a direct call of a pure function: its name and arguments
  ret          \* what that call returned

vars == <<db, users, checkpoint, accepted, pc, req, st, trace, collab, raised, response,
         call, ret>>

Threads == {thread_id(u) : u \in ChatUsers}

\* No direct call is being examined.
NoCall == [fn |-> ""]

\* The service before its first request: no checkpoint, no handler running.
Idle ==
  /\ checkpoint = [th \in Threads |-> EmptyState]
  /\ accepted = 0
  /\ pc = [t \in Tasks |-> "idle"]
  /\ req = [t \in Tasks |-> 0]
  /\ st = [t \in Tasks |-> EmptyState]
  /\ trace = [t \in Tasks |-> <<>>]
  /\ collab = [t \in Tasks |-> NotCalled]
  /\ raised = [t \in Tasks |-> NoError]
  /\ response = [n \in Requests |-> NoResponse]

\* The users the rows of LedgerStates belong to.
StoredUsers == <<[id |-> 1, email |-> "a"], [id |-> 2, email |-> "b"]>>

Init ==
  /\ db \in LedgerStates
  /\ users = StoredUsers
  /\ Idle
  /\ call = NoCall
  /\ ret = NoCall

\* The thread a task's run belongs to.
ThreadOf(t) == thread_id(st[t].user_id.v)

\* chat_with_agent up to the first node: the graph loads the thread's latest
\* checkpoint, applies initial_state through the reducers and saves it.
\* (Task t takes a request only when the tasks before it are busy.)
StartRun(t) ==
  /\ pc[t] = "idle"
  /\ \A q \in Tasks : q < t => pc[q] # "idle"
  /\ accepted < MaxRequests
  /\ \E uid \in ChatUsers :
       LET n == accepted + 1
           loaded == checkpoint[thread_id(uid)]
           start == Merge(loaded, initial_state(n, uid))
       IN  /\ accepted' = n
           /\ req' = [req EXCEPT ![t] = n]
           /\ st' = [st EXCEPT ![t] = start]
           /\ checkpoint' = [checkpoint EXCEPT ![thread_id(uid)] = start]
           /\ pc' = [pc EXCEPT ![t] = entry_point]
  /\ UNCHANGED <<db, users, trace, collab, raised, response, call, ret>>

\* One superstep of the graph: the node's update is merged into the run's
\* channels, the checkpoint is saved and the outgoing edge is followed; an
\* exception leaves ainvoke with the checkpoint as the last step saved it.
Step(t, node, res, who, status) ==
  /\ trace' = [trace EXCEPT ![t] = Append(@, node)]
  /\ collab' = IF who = "" THEN collab ELSE [collab EXCEPT ![t][who] = status]
  /\ IF res.raised
       THEN /\ pc' = [pc EXCEPT ![t] = "error"]
            /\ raised' = [raised EXCEPT ![t] = [node |-> node, exc |-> res.exc]]
            /\ UNCHANGED <<st, checkpoint>>
       ELSE LET new == Merge(st[t], res.upd)
            IN  /\ st' = [st EXCEPT ![t] = new]
                /\ checkpoint' = [checkpoint EXCEPT ![ThreadOf(t)] = new]
                /\ pc' = [pc EXCEPT ![t] = workflow(node, new)]
                /\ UNCHANGED raised
  /\ UNCHANGED <<db, users, accepted, req, response, call, ret>>

TranslateInput(t) ==
  /\ pc[t] = "translate_input"
  /\ \E out \in TranslatorOutcomes :
       Step(t, "translate_input", translate_user_input(st[t], out),
            "translator", IF out = "EXC" THEN "failed" ELSE "ok")

AnalyzeIntent(t) ==
  /\ pc[t] = "analyze_intent"
  /\ \E out \in RouterOutcomes :
       Step(t, "analyze_intent", analyze_intent(st[t], out),
            "classifier", IF out \in Intents THEN "ok" ELSE "failed")

FetchLedgerData(t) ==
  /\ pc[t] = "fetch_ledger_data"
  /\ \E out \in LedgerOutcomes :
       Step(t, "fetch_ledger_data", fetch_ledger_data(st[t], db, out),
            "ledger", IF out = "EXC" THEN "failed" ELSE "ok")

RunMathEngine(t) ==
  /\ pc[t] = "run_math_engine"
  /\ Step(t, "run_math_engine", run_math_engine(st[t]), "", "")

ExtractPurchaseInfo(t) ==
  /\ pc[t] = "extract_purchase_info"
  /\ \E out \in ExtractorOutcomes :
       Step(t, "extract_purchase_info", extract_purchase_info(st[t], out),
            "extractor", IF out.raises THEN "failed" ELSE "ok")

FetchMarketPrice(t) ==
  /\ pc[t] = "fetch_market_price"
  /\ IF market_search_skipped(st[t])
       THEN Step(t, "fetch_market_price", fetch_market_price(st[t], ""), "", "")
       ELSE \E out \in SearchOutcomes :
              Step(t, "fetch_market_price", fetch_market_price(st[t], out),
                   "market", IF out = "EXC" THEN "failed" ELSE "ok")

AnalyzePurchaseRisk(t) ==
  /\ pc[t] = "analyze_purchase_risk"
  /\ Step(t, "analyze_purchase_risk", analyze_purchase_risk(st[t]), "", "")

\* The LLM is called only when the prompt could be built.
GenerateFinalResponse(t) ==
  /\ pc[t] = "generate_final_response"
  /\ IF compose_prompt(st[t]).raised
       THEN Step(t, "generate_final_response",
                 generate_final_response(st[t], "", req[t]), "", "")
       ELSE \E out \in ComposerOutcomes :
              Step(t, "generate_final_response",
                   generate_final_response(st[t], out, req[t]),
                   "composer", IF out = "EXC" THEN "failed" ELSE "ok")

\* chat_with_agent after ainvoke: the response model, or the except branch.
\* The handler's locals are gone once it has answered.
Respond(t) ==
  /\ pc[t] \in {"END", "error"}
  /\ response' = [response EXCEPT ![req[t]] =
                    IF pc[t] = "END" THEN ChatResponse(st[t])
                    ELSE HTTPException500(raised[t].exc)]
  /\ pc' = [pc EXCEPT ![t] = "idle"]
  /\ req' = [req EXCEPT ![t] = 0]
  /\ st' = [st EXCEPT ![t] = EmptyState]
  /\ trace' = [trace EXCEPT ![t] = <<>>]
  /\ collab' = [collab EXCEPT ![t] = NotCalled]
  /\ raised' = [raised EXCEPT ![t] = NoError]
  /\ UNCHANGED <<db, users, checkpoint, accepted, call, ret>>

\* What one handler task can do next.
TaskNext(t) ==
  \/ StartRun(t)
  \/ TranslateInput(t)
  \/ AnalyzeIntent(t)
  \/ FetchLedgerData(t)
  \/ RunMathEngine(t)
  \/ ExtractPurchaseInfo(t)
  \/ FetchMarketPrice(t)
  \/ AnalyzePurchaseRisk(t)
  \/ GenerateFinalResponse(t)
  \/ Respond(t)

\* Requests served one after the other: the second arrives after the first
\* was answered (any number of sessions, each with its checkpoint history).
Next == TaskNext(1)

Spec == Init /\ [][Next]_vars

\* Requests served as the event loop serves them: a second request is taken
\* while the first is awaiting a collaborator, and their steps interleave.
ConcNext == \E t \in Tasks : TaskNext(t)

ConcSpec == Init /\ [][ConcNext]_vars

\* ------------------------------------------- the risk assessor called alone
\* The figures assess_purchase_risk is called with, in whole currency units
\* (floats that hold them are exact): the scenarios of the README
\* (650 / 1000 / 350 / 700, 5000 / 3000 / 1000 / 1500, 3000 over 6 months),
\* their boundary cases, and an income of zero and below zero.
RiskIncomes == {-1000, 0, 1000, 3000}
RiskExpenses == {0, 300, 350, 1000}
RiskBalances == {-100, 650, 700, 5000}
RiskPrices == {0, 700, 1500, 2000, 3000, 4200}
RiskMonths == {PyNone, Some(0), Some(1), Some(6)}

RiskCalls ==
  [fn : {"assess_purchase_risk"},
   monthly_income : RiskIncomes, monthly_expenses : RiskExpenses,
   current_balance : RiskBalances, item_price : RiskPrices,
   is_credit : BOOLEAN, credit_months : RiskMonths]

RiskInit ==
  /\ db = <<>>
  /\ users = <<>>
  /\ Idle
  /\ call \in RiskCalls
  /\ ret = NoCall

\* RiskAnalyzer(...).assess_purchase_risk(...)
CallAssessPurchaseRisk ==
  /\ call.fn = "assess_purchase_risk"
  /\ ret = NoCall
  /\ ret' = assess_purchase_risk(
              RiskAnalyzer(call.monthly_income, call.monthly_expenses,
                           call.current_balance),
              "item", call.item_price, call.is_credit, call.credit_months)
  /\ UNCHANGED <<db, users, checkpoint, accepted, pc, req, st, trace, collab, raised,
                 response, call>>

RiskNext == CallAssessPurchaseRisk

RiskSpec == RiskInit /\ [][RiskNext]_vars

\* ----------------------------------------- the metrics engine called alone
\* Longest ledger snapshot handed to run_math_engine.
MaxLen == 3

\* Stored amounts, in ten-thousandths: 50, 99.99, 300, 1000 and -300 (the
\* schema sets no lower bound).
MathAmounts == {-3000000, 500000, 999900, 3000000, 10000000}

\* The rows of one user as the store returns them, in every order.
Snapshots ==
  UNION {[1..n -> [amount : MathAmounts, tx_type : TxTypes]] : n \in 0..MaxLen}

MathInit ==
  /\ db = <<>>
  /\ users = <<>>
  /\ Idle
  /\ call \in [fn : {"run_math_engine"}, rows : Snapshots]
  /\ ret = NoCall

\* The state run_math_engine is called with after fetch_ledger_data.
Fetched(rows) ==
  Merge(EmptyState, [extracted_transactions |-> Some(extracted(rows))])

\* run_math_engine(state)
CallRunMathEngine ==
  /\ call.fn = "run_math_engine"
  /\ ret = NoCall
  /\ ret' = run_math_engine_float(Fetched(call.rows)).upd
  /\ UNCHANGED <<db, users, checkpoint, accepted, pc, req, st, trace, collab, raised,
                 response, call>>

\* run_math_engine(state) once more, on the state its first result was
\* merged into; ret keeps the first result beside the second.
RepeatRunMathEngine ==
  /\ call.fn = "run_math_engine"
  /\ ret # NoCall
  /\ "again" \notin DOMAIN ret
  /\ ret' = [financial_result |-> ret.financial_result,
             metrics |-> ret.metrics,
             again |-> run_math_engine_float(Merge(Fetched(call.rows), ret)).upd]
  /\ UNCHANGED <<db, users, checkpoint, accepted, pc, req, st, trace, collab, raised,
                 response, call>>

MathNext == CallRunMathEngine \/ RepeatRunMathEngine

MathSpec == MathInit /\ [][MathNext]_vars

\* --------------------------------------------- the Telegram handler alone
\* What ainvoke can hand back to chat_with_agent for request m of user 1.
\* An exception of a stage, together with the state of the run the last
\* checkpoint holds at that moment:
Failed(exc, m, intent, balance) ==
  [raised |-> TRUE, exc |-> exc,
   state |-> Merge(EmptyState,
                   [messages |-> <<HumanMessage(m)>>, user_id |-> Some(1),
                    intent |-> intent, financial_result |-> balance])]

Failures(m) ==
  { Failed("LedgerStoreError", m, Some("get_balance"), PyNone),
    Failed("ComposerError", m, Some("analyze_runway"), Some(650)),
    Failed("TypeError", m, Some("general_chat"), PyNone),
    Failed("ZeroDivisionError", m, Some("evaluate_purchase"), Some(0)) }

\* or the final state of a run that reached END (its intent is one of the
\* three ledger intents, its balance that of a ledger of LedgerStates).
FinalStates(m) ==
  { Merge(EmptyState,
          [messages |-> <<HumanMessage(m), AIMessage(m)>>,
           user_id |-> Some(1), intent |-> intent,
           financial_result |-> Some(balance)]) :
      intent \in {Some(i) : i \in Intents \ {"general_chat"}},
      balance \in {0, 650} }

AinvokeOutcomes(m) == Failures(m) \cup {Update(fs) : fs \in FinalStates(m)}

\* POST /chat/: a body whose message is null is answered 422 by the request
\* validation; otherwise chat_with_agent answers with the response model, or
\* from its except branch.
chat_with_agent(text, result) ==
  IF text = PyNone THEN [status |-> 422, detail |-> "RequestValidationError"]
  ELSE IF result.raised
    THEN HTTPException500(result.exc)
    ELSE ChatResponse(result.upd)

\* What client.post can do: fail to connect, time out, or deliver the
\* endpoint's answer.
PostOutcomes == {"ConnectError", "ReadTimeout", "delivered"}

\* message.text is None for a message without text.
BotCalls ==
  [fn : {"handle_message"}, text : {PyNone}, post : PostOutcomes,
   ainvoke : {Raise("not invoked")}]
    \cup UNION {[fn : {"handle_message"}, text : {Some(m)}, post : PostOutcomes,
                 ainvoke : AinvokeOutcomes(m)] : m \in Requests}

\* Mutant: response.raise_for_status() is left out.
final_text_unchecked_status(post) ==
  IF post.kind = "ConnectError"
    THEN [kind |-> "error", text |-> "Connection error"]
    ELSE IF post.kind # "http"
      THEN [kind |-> "error", text |-> "Unexpected error", e |-> post.kind]
      ELSE LET data == post.response
           IN  [kind |-> "reply",
                reply_text |-> IF "response" \in DOMAIN data THEN data.response
                               ELSE "Failed to generate a response.",
                intent |-> IF "intent" \in DOMAIN data THEN data.intent
                           ELSE "unknown"]

\* handle_message: final_text after the try statement.
final_text(post) ==
  IF post.kind = "ConnectError"
    THEN [kind |-> "error", text |-> "Connection error"]
    ELSE IF post.kind # "http"
      THEN [kind |-> "error", text |-> "Unexpected error", e |-> post.kind]
      ELSE IF post.response.status >= 400
        THEN [kind |-> "error", text |-> "Unexpected error",
              e |-> <<"HTTPStatusError", post.response.status>>]
        ELSE LET data == post.response
             IN  [kind |-> "reply",
                  reply_text |-> IF "response" \in DOMAIN data THEN data.response
                                 ELSE "Failed to generate a response.",
                  intent |-> IF "intent" \in DOMAIN data THEN data.intent
                             ELSE "unknown"]

BotInit ==
  /\ db = <<>>
  /\ users = <<>>
  /\ Idle
  /\ call \in BotCalls
  /\ ret = NoCall

\* processing_msg = await message.answer(...)
BotAnswer ==
  /\ call.fn = "handle_message"
  /\ ret = NoCall
  /\ ret' = [fn |-> "handle_message", sent |-> <<[api |-> "answer"]>>,
             http |-> NoResponse, final_text |-> Absent]
  /\ UNCHANGED <<db, users, checkpoint, accepted, pc, req, st, trace, collab, raised,
                 response, call>>

\* The endpoint answers the request it received (also one whose client has
\* stopped waiting).
EndpointAnswers ==
  /\ call.fn = "handle_message"
  /\ ret # NoCall
  /\ call.post # "ConnectError"
  /\ ret.http = NoResponse
  /\ ret' = [ret EXCEPT !.http = chat_with_agent(call.text, call.ainvoke)]
  /\ UNCHANGED <<db, users, checkpoint, accepted, pc, req, st, trace, collab, raised,
                 response, call>>

\* The try statement: client.post, raise_for_status, response.json().
BotPost ==
  /\ call.fn = "handle_message"
  /\ ret # NoCall
  /\ ret.final_text = Absent
  /\ call.post = "delivered" => ret.http # NoResponse
  /\ LET post == IF call.post = "delivered"
                   THEN [kind |-> "http", response |-> ret.http]
                   ELSE [kind |-> call.post]
     IN  ret' = [ret EXCEPT !.final_text = Some(final_text(post))]
  /\ UNCHANGED <<db, users, checkpoint, accepted, pc, req, st, trace, collab, raised,
                 response, call>>

\* await processing_msg.edit_text(final_text, ...)
BotEdit ==
  /\ call.fn = "handle_message"
  /\ ret # NoCall
  /\ ret.final_text # Absent
  /\ Len(ret.sent) = 1
  /\ ret' = [ret EXCEPT !.sent = Append(@, [api |-> "edit_text",
                                            text |-> ret.final_text.v])]
  /\ UNCHANGED <<db, users, checkpoint, accepted, pc, req, st, trace, collab, raised,
                 response, call>>

BotNext == BotAnswer \/ EndpointAnswers \/ BotPost \/ BotEdit

BotSpec == BotInit /\ [][BotNext]_vars

\* ------------------------------------------- the user and ledger endpoints
\* POST /users/ and POST /transactions/, each handler an asyncio task that
\* can be suspended at its awaits; st[t] holds the request body the handler
\* of task t was called with, pc[t] the await it is at.
UserEmails == {"a", "b"}

\* User ids transaction requests carry (the first users get the ids 1, 2, ...).
TxUserIds == {1, 2}

LedgerRequests ==
  [fn : {"create_user"}, email : UserEmails]
    \cup [fn : {"create_transaction"}, user_id : TxUserIds]

\* select(ledger.User).where(ledger.User.email == email): a row exists.
EmailStored(email) == \E i \in 1..Len(users) : users[i].email = email

\* select(ledger.User).where(ledger.User.id == user_id): a row exists.
UserStored(uid) == \E i \in 1..Len(users) : users[i].id = uid

UserInit ==
  /\ db = <<>>
  /\ users = <<>>
  /\ Idle
  /\ call = NoCall
  /\ ret = NoCall

\* FastAPI starts the handler of a request.
AcceptRequest(t) ==
  /\ pc[t] = "idle"
  /\ \A q \in Tasks : q < t => pc[q] # "idle"
  /\ accepted < MaxRequests
  /\ \E body \in LedgerRequests :
       /\ st' = [st EXCEPT ![t] = body]
       /\ pc' = [pc EXCEPT ![t] = body.fn]
  /\ accepted' = accepted + 1
  /\ req' = [req EXCEPT ![t] = accepted + 1]
  /\ UNCHANGED <<db, users, checkpoint, trace, collab, raised, response, call,
                 ret>>

\* The handler of task t returns or raises: the request is answered.
Answer(t, status, detail) ==
  /\ response' = [response EXCEPT ![req[t]] =
                    [status |-> status, detail |-> detail]]
  /\ pc' = [pc EXCEPT ![t] = "idle"]
  /\ req' = [req EXCEPT ![t] = 0]
  /\ st' = [st EXCEPT ![t] = EmptyState]

\* create_user up to the commit: the duplicate check.
CreateUserSelect(t) ==
  /\ pc[t] = "create_user"
  /\ IF EmailStored(st[t].email)
       THEN Answer(t, 400, "User with this email already exists.")
       ELSE /\ pc' = [pc EXCEPT ![t] = "create_user: commit"]
            /\ UNCHANGED <<req, st, response>>
  /\ UNCHANGED <<db, users, checkpoint, accepted, trace, collab, raised, call,
                 ret>>

\* create_user: db.add, commit, refresh.  users.email is a unique column: the
\* INSERT of an email that is stored by now raises IntegrityError, which the
\* handler does not catch.
CreateUserCommit(t) ==
  /\ pc[t] = "create_user: commit"
  /\ IF EmailStored(st[t].email)
       THEN /\ Answer(t, 500, "IntegrityError")
            /\ UNCHANGED users
       ELSE /\ users' = Append(users, [id |-> Len(users) + 1,
                                       email |-> st[t].email])
            /\ Answer(t, 201, "UserResponse")
  /\ UNCHANGED <<db, checkpoint, accepted, trace, collab, raised, call, ret>>

\* create_transaction up to the commit: the check that the user exists.
CreateTransactionSelect(t) ==
  /\ pc[t] = "create_transaction"
  /\ IF ~UserStored(st[t].user_id)
       THEN Answer(t, 404, "User not found. Cannot attach transaction.")
       ELSE /\ pc' = [pc EXCEPT ![t] = "create_transaction: commit"]
            /\ UNCHANGED <<req, st, response>>
  /\ UNCHANGED <<db, users, checkpoint, accepted, trace, collab, raised, call,
                 ret>>

\* create_transaction: db.add, commit, refresh.  transactions.user_id is a
\* foreign key of users.id.
CreateTransactionCommit(t) ==
  /\ pc[t] = "create_transaction: commit"
  /\ IF ~UserStored(st[t].user_id)
       THEN /\ Answer(t, 500, "IntegrityError")
            /\ UNCHANGED db
       ELSE /\ db' = Append(db, Tx(st[t].user_id, "DEPOSIT", 100))
            /\ Answer(t, 201, "TransactionResponse")
  /\ UNCHANGED <<users, checkpoint, accepted, trace, collab, raised, call, ret>>

UserNext ==
  \E t \in Tasks :
    \/ AcceptRequest(t)
    \/ CreateUserSelect(t)
    \/ CreateUserCommit(t)
    \/ CreateTransactionSelect(t)
    \/ CreateTransactionCommit(t)

UserSpec == UserInit /\ [][UserNext]_vars

\* ------------------------------------------------------------------ helpers
Executed(t, node) == \E i \in 1..Len(trace[t]) : trace[t][i] = node

\* Position of a node in the run's trace (0: not invoked).
Pos(t, node) ==
  IF Executed(t, node)
    THEN CHOOSE i \in 1..Len(trace[t]) : trace[t][i] = node
    ELSE 0

LastNode(t) == IF trace[t] = <<>> THEN "" ELSE trace[t][Len(trace[t])]

\* The run of task t has finished (ainvoke returned or raised).
Finished(t) == pc[t] \in {"END", "error"}

\* The run of task t still has a stage to execute.
InFlight(t) == pc[t] \in Nodes

NoCollaboratorFailed(t) == \A c \in Collaborators : collab[t][c] # "failed"

LedgerIntents == {Some("get_balance"), Some("analyze_runway"),
                  Some("evaluate_purchase")}

\* trace[t] is an initial part of the sequence path.
IsPrefix(s, path) ==
  /\ Len(s) <= Len(path)
  /\ \A i \in 1..Len(s) : s[i] = path[i]

\* ------------------------------------------------------------------ claims

\* C1: a run in which no collaborator (translator, LLM, ledger store, web
\* search) fails reaches END, with generate_final_response as its last stage.
\* Stated for finished runs: such a run has not ended in an error.
C1_CleanRunReachesEND ==
  \A t \in Tasks :
    (Finished(t) /\ NoCollaboratorFailed(t)) =>
      (pc[t] = "END" /\ LastNode(t) = "generate_final_response")

\* C2: in a run whose intent is get_balance, analyze_runway or
\* evaluate_purchase, fetch_ledger_data and then run_math_engine are executed
\* before generate_final_response starts: once classified, the run is at
\* fetch_ledger_data or has executed it; past it, the run is at
\* run_math_engine or has executed it (unless the fetch raised); and the
\* composer starts only after both, in this order.
C2_LedgerThenMetricsBeforeCompose ==
  \A t \in Tasks :
    (Executed(t, "analyze_intent") /\ st[t].intent \in LedgerIntents) =>
      /\ pc[t] = "fetch_ledger_data" \/ Executed(t, "fetch_ledger_data")
      /\ (Executed(t, "fetch_ledger_data")
            /\ ~(pc[t] = "error" /\ raised[t].node = "fetch_ledger_data")) =>
           (pc[t] = "run_math_engine" \/ Executed(t, "run_math_engine"))
      /\ (pc[t] = "generate_final_response"
            \/ Executed(t, "generate_final_response")) =>
           /\ Pos(t, "analyze_intent") < Pos(t, "fetch_ledger_data")
           /\ Pos(t, "fetch_ledger_data") < Pos(t, "run_math_engine")
           /\ Executed(t, "generate_final_response") =>
                Pos(t, "run_math_engine") < Pos(t, "generate_final_response")

C2_Witness ==
  \E t \in Tasks :
    /\ st[t].intent = Some("analyze_runway")
    /\ pc[t] = "END"
    /\ trace[t] = <<"translate_input", "analyze_intent", "fetch_ledger_data",
                    "run_math_engine", "generate_final_response">>

\* C3: in a general_chat run the ledger store is never queried and none of
\* run_math_engine, extract_purchase_info, fetch_market_price and
\* analyze_purchase_risk is executed: the run goes from analyze_intent
\* directly to generate_final_response.
C3_GeneralChatSkipsLedger ==
  \A t \in Tasks :
    (Executed(t, "analyze_intent") /\ st[t].intent = Some("general_chat")) =>
      /\ IsPrefix(trace[t], <<"translate_input", "analyze_intent",
                              "generate_final_response">>)
      /\ pc[t] \in {"generate_final_response", "END", "error"}
      /\ collab[t]["ledger"] = "-"
      /\ collab[t]["extractor"] = "-"
      /\ collab[t]["market"] = "-"
      /\ st[t].extracted_transactions = Some(<<>>)

C3_Witness ==
  \E t \in Tasks :
    /\ st[t].intent = Some("general_chat")
    /\ collab[t]["classifier"] = "ok"
    /\ trace[t] = <<"translate_input", "analyze_intent",
                    "generate_final_response">>

\* C4: a run ends in an error only if the ledger fetch failed or the response
\* composer failed; no input the earlier stages hand to run_math_engine or
\* analyze_purchase_risk ends the run with an error.
C4_OnlyLedgerAndComposerAreFatal ==
  \A t \in Tasks :
    pc[t] = "error" =>
      raised[t].node \in {"fetch_ledger_data", "generate_final_response"}

\* C5: called in credit mode (credit_months >= 1) with monthly_income = 0,
\* the risk assessor returns a verdict and raises no division by zero.
C5_ZeroIncomeCreditHasVerdict ==
  \A t \in Tasks :
    (/\ Executed(t, "analyze_purchase_risk")
     /\ st[t].purchase_data.v.is_credit
     /\ st[t].purchase_data.v.credit_months.k = "some"
     /\ st[t].purchase_data.v.credit_months.v >= 1
     /\ st[t].metrics.v.monthly_income = 0) =>
      ~(pc[t] = "error" /\ raised[t].exc = "ZeroDivisionError")

\* C6: at most one pipeline run is in flight per session id (thread id).
C6_OneRunInFlightPerSession ==
  \A t1, t2 \in Tasks :
    (InFlight(t1) /\ InFlight(t2) /\ ThreadOf(t1) = ThreadOf(t2)) => t1 = t2

\* C7: once every run has completed, the persisted history of a session
\* holds the user message of every answered run directly followed by that
\* run's response.
C7_NoLostOrInterleavedUpdate ==
  (\A t \in Tasks : pc[t] = "idle") =>
    \A n \in Requests :
      response[n].status = 200 =>
        \E th \in Threads :
          LET h == checkpoint[th].messages
          IN  \E i \in 1..(Len(h) - 1) :
                h[i] = HumanMessage(n) /\ h[i + 1] = AIMessage(n)

\* C8: when the ledger fetch or the response composer fails, the run ends in
\* an error and no later stage is invoked (after a failed fetch no metrics are
\* computed and no extractor, market lookup, risk assessor or composer call is
\* made); a run that ended in an error invokes nothing more and the endpoint
\* answers it with status 500.
C8_State ==
  \A t \in Tasks :
    /\ collab[t]["ledger"] = "failed" =>
         /\ pc[t] = "error"
         /\ raised[t] = [node |-> "fetch_ledger_data", exc |-> "LedgerStoreError"]
         /\ trace[t] = <<"translate_input", "analyze_intent", "fetch_ledger_data">>
         /\ collab[t]["extractor"] = "-"
         /\ collab[t]["market"] = "-"
         /\ collab[t]["composer"] = "-"
         /\ st[t].financial_result = PyNone
    /\ collab[t]["composer"] = "failed" =>
         /\ pc[t] = "error"
         /\ raised[t] = [node |-> "generate_final_response", exc |-> "ComposerError"]
         /\ LastNode(t) = "generate_final_response"
         /\ st[t].messages[Len(st[t].messages)] = HumanMessage(req[t])

C8_Step ==
  \A t \in Tasks :
    pc[t] = "error" =>
      \/ pc'[t] = "error" /\ trace'[t] = trace[t] /\ collab'[t] = collab[t]
      \/ pc'[t] = "idle" /\ response'[req[t]] = [status |-> 500, detail |-> raised[t].exc]

C8_FatalFailureShortCircuits == []C8_State /\ [][C8_Step]_vars

C8_Witness ==
  /\ \E n \in Requests : response[n] = [status |-> 500, detail |-> "LedgerStoreError"]
  /\ \E t \in Tasks : collab[t]["composer"] = "failed" /\ pc[t] = "error"

\* C9: after analyze_intent the intent is one of the four intents; it is
\* general_chat whenever the classifier raised, answered no JSON, omitted the
\* key or answered another value; every successful chat response carries one
\* of the four intents.
C9_IntentIsOneOfFour ==
  /\ \A t \in Tasks :
       Executed(t, "analyze_intent") =>
         /\ st[t].intent.k = "some"
         /\ st[t].intent.v \in Intents
         /\ collab[t]["classifier"] = "failed" =>
              st[t].intent = Some("general_chat")
  /\ \A n \in Requests :
       response[n].status = 200 => response[n].intent \in Intents

C9_Witness ==
  /\ \E t \in Tasks :
       /\ collab[t]["classifier"] = "failed"
       /\ st[t].intent = Some("general_chat")
       /\ pc[t] = "generate_final_response"
  /\ \E n \in Requests : response[n].status = 200

\* C10: when the purchase extractor fails, purchase_data is the placeholder
\* ("unknown item", price 0, no credit, 1 month) and the run continues through
\* fetch_market_price, analyze_purchase_risk and generate_final_response to
\* END: nothing but a failure of the composer LLM ends it in an error.
C10_ExtractionFailureContinues ==
  \A t \in Tasks :
    collab[t]["extractor"] = "failed" =>
      /\ st[t].purchase_data = Some(Purchase("unknown item", 0, FALSE, Some(1)))
      /\ \/ pc[t] \in {"fetch_market_price", "analyze_purchase_risk",
                       "generate_final_response", "END"}
         \/ pc[t] = "error" /\ collab[t]["composer"] = "failed"
      /\ IsPrefix(trace[t],
                  <<"translate_input", "analyze_intent", "fetch_ledger_data",
                    "run_math_engine", "extract_purchase_info",
                    "fetch_market_price", "analyze_purchase_risk",
                    "generate_final_response">>)
      /\ pc[t] = "END" =>
           /\ Len(trace[t]) = 8
           /\ st[t].messages[Len(st[t].messages)] = AIMessage(req[t])

C10_Witness ==
  \E t \in Tasks :
    /\ collab[t]["extractor"] = "failed"
    /\ pc[t] = "END"
    /\ st[t].purchase_risk.k = "some"

\* The stages in the order of the graph's longest path.
StageOrder ==
  <<"translate_input", "analyze_intent", "fetch_ledger_data",
    "run_math_engine", "extract_purchase_info", "fetch_market_price",
    "analyze_purchase_risk", "generate_final_response">>

Rank(node) == CHOOSE i \in 1..Len(StageOrder) : StageOrder[i] = node

\* C11: when the market lookup fails in an evaluate_purchase run,
\* market_context is the placeholder text, the run goes on to
\* analyze_purchase_risk and generate_final_response (nothing but a failure
\* of the composer LLM ends it in an error), and the verdict is the one the
\* risk assessor returns for the same state with a successful lookup.
C11_MarketFailureContinues ==
  \A t \in Tasks :
    collab[t]["market"] = "failed" =>
      /\ st[t].intent = Some("evaluate_purchase")
      /\ st[t].market_context =
           Some("Could not fetch market data due to search error.")
      /\ \/ pc[t] \in {"analyze_purchase_risk", "generate_final_response", "END"}
         \/ pc[t] = "error" /\ collab[t]["composer"] = "failed"
      /\ IsPrefix(trace[t], StageOrder)
      /\ (Executed(t, "analyze_purchase_risk") /\ pc[t] # "error") =>
           analyze_purchase_risk(
             [st[t] EXCEPT !.market_context = Some("results[:1000]")])
             = Update([purchase_risk |-> st[t].purchase_risk])

\* C12: whenever analyze_purchase_risk has called the risk assessor in credit
\* mode, the credit_months it passed is an integer >= 1 (not None, not 0, not
\* negative).
C12_CreditMonthsAtLeastOne ==
  \A t \in Tasks :
    (Executed(t, "analyze_purchase_risk")
       /\ st[t].purchase_data.v.is_credit) =>
      /\ st[t].purchase_data.v.credit_months.k = "some"
      /\ st[t].purchase_data.v.credit_months.v >= 1

\* C13: within one run every stage is executed at most once and never after
\* a stage that lies behind it in the graph: the stages a run has invoked are
\* in strictly increasing graph order, and a run that has ended (END or
\* error) invokes nothing more.
C13_State ==
  \A t \in Tasks :
    /\ \A i, j \in 1..Len(trace[t]) :
         i < j => Rank(trace[t][i]) < Rank(trace[t][j])
    /\ pc[t] \in Nodes => ~Executed(t, pc[t])

C13_Step ==
  \A t \in Tasks :
    /\ Finished(t) => (trace'[t] = trace[t] \/ trace'[t] = <<>>)
    /\ trace'[t] # trace[t] =>
         \/ trace'[t] = <<>>
         \/ /\ trace'[t] = Append(trace[t], pc[t])
            /\ ~Executed(t, pc[t])

C13_EachStageAtMostOnce == []C13_State /\ [][C13_Step]_vars

C13_Witness ==
  \E t \in Tasks : pc[t] = "END" /\ trace[t] = StageOrder

\* C14: extract_purchase_info, fetch_market_price and analyze_purchase_risk
\* are executed only in a run whose intent is evaluate_purchase, and in every
\* such run that got past run_math_engine; they run in this order, after
\* run_math_engine of the same run and before generate_final_response; a run
\* that reached END executed all three exactly when its intent is
\* evaluate_purchase.  The risk assessor therefore reads the balance and the
\* metrics that run_math_engine computed in this run from the transactions
\* fetch_ledger_data fetched in this run.
C14_PurchaseStagesIffEvaluatePurchase ==
  \A t \in Tasks :
    LET purchase == {"extract_purchase_info", "fetch_market_price",
                     "analyze_purchase_risk"}
        ran(node) == Executed(t, node)
    IN  /\ (pc[t] \in purchase \/ \E node \in purchase : ran(node)) =>
             /\ st[t].intent = Some("evaluate_purchase")
             /\ IsPrefix(trace[t], StageOrder)
             /\ Len(trace[t]) >= 4
        /\ (st[t].intent = Some("evaluate_purchase") /\ ran("run_math_engine")) =>
             /\ pc[t] = "extract_purchase_info" \/ ran("extract_purchase_info")
             /\ ran("extract_purchase_info") =>
                  (pc[t] = "fetch_market_price" \/ ran("fetch_market_price"))
             /\ ran("fetch_market_price") =>
                  (pc[t] = "analyze_purchase_risk" \/ ran("analyze_purchase_risk"))
        /\ pc[t] = "END" =>
             ((\A node \in purchase : ran(node))
                <=> st[t].intent = Some("evaluate_purchase"))
        /\ pc[t] = "END" =>
             ((\E node \in purchase : ran(node))
                <=> st[t].intent = Some("evaluate_purchase"))
        /\ (pc[t] = "analyze_purchase_risk" \/ ran("analyze_purchase_risk")) =>
             /\ st[t].extracted_transactions =
                  Some(SelectUser(db, st[t].user_id.v))
             /\ st[t].financial_result = run_math_engine(st[t]).upd.financial_result
             /\ st[t].metrics = run_math_engine(st[t]).upd.metrics

C14_Witness ==
  \E t \in Tasks :
    /\ pc[t] = "END"
    /\ trace[t] = StageOrder
    /\ st[t].financial_result = Some(650)
    /\ st[t].purchase_risk.k = "some"
    /\ st[t].purchase_risk.v.reason = "dti_critical"

\* assess_purchase_risk was called directly and has returned or raised.
Assessed == call.fn = "assess_purchase_risk" /\ ret # NoCall

HasVerdict(risky, reason) ==
  /\ ~ret.raised
  /\ ret.verdict.is_risky = risky
  /\ ret.verdict.reason = reason

\* The call is on credit with credit_months >= 1.
CreditCall ==
  /\ call.is_credit
  /\ call.credit_months.k = "some"
  /\ call.credit_months.v >= 1

\* C15: for an outright request (is_credit false) with item_price > balance
\* the verdict is risky with reason critical_funds, whatever the income, the
\* expenses and the free cash flow are.
C15_FundsCheckFirst ==
  (Assessed /\ ~call.is_credit /\ call.item_price > call.current_balance) =>
    HasVerdict(TRUE, "critical_funds")

\* The price exceeds the balance but not the free cash flow.
C15_Witness ==
  /\ Assessed /\ ~call.is_credit
  /\ call.item_price > call.current_balance
  /\ call.item_price <= call.monthly_income - call.monthly_expenses
  /\ HasVerdict(TRUE, "critical_funds")

Computed == call.fn = "run_math_engine" /\ ret # NoCall

\* The sum of two floats as a real number (not rounded).
ExactAdd(x, y) ==
  IF x.neg = y.neg THEN F64(x.neg, MagAdd(x.mag, y.mag))
  ELSE IF MagLess(x.mag, y.mag) THEN F64(y.neg, MagSub(y.mag, x.mag))
  ELSE F64(x.neg, MagSub(x.mag, y.mag))

\* The real sum of the amounts of the first i transactions with these types.
RECURSIVE ExactSum(_, _, _)
ExactSum(transactions, i, types) ==
  IF i = 0 THEN float_zero
  ELSE IF transactions[i].tx_type \in types
    THEN ExactAdd(ExactSum(transactions, i - 1, types), transactions[i].amount)
    ELSE ExactSum(transactions, i - 1, types)

\* The float nearest to a real number.
Nearest(x) == F64(x.neg, RoundMag(x.mag, FALSE))

Perms(n) == {p \in [1..n -> 1..n] : \A i, j \in 1..n : p[i] = p[j] => i = j}

\* C19: for every ledger snapshot run_math_engine returns monthly_income =
\* the sum of the DEPOSIT amounts, burn_rate = the sum of the WITHDRAWAL and
\* SUBSCRIPTION amounts and balance = the first minus the second (each as the
\* float nearest to that sum), the same for every order of the transactions;
\* the empty snapshot yields all-zero metrics.
C19_SumsIndependentOfOrder ==
  Computed =>
    LET transactions == extracted(call.rows)
        n == Len(transactions)
        deposits == ExactSum(transactions, n, {"DEPOSIT"})
        spent == ExactSum(transactions, n, {"WITHDRAWAL", "SUBSCRIPTION"})
    IN  /\ ret.metrics.v.monthly_income = Nearest(deposits)
        /\ ret.metrics.v.burn_rate = Nearest(spent)
        /\ ret.financial_result.v
             = Nearest(ExactAdd(deposits, F64(~spent.neg, spent.mag)))
        /\ \A p \in Perms(n) :
             LET again == run_math_engine_float(
                            Fetched([i \in 1..n |-> call.rows[p[i]]])).upd
             IN  /\ again.financial_result = ret.financial_result
                 /\ again.metrics.v.monthly_income = ret.metrics.v.monthly_income
                 /\ again.metrics.v.burn_rate = ret.metrics.v.burn_rate
        /\ n = 0 =>
             /\ ret.financial_result.v = float_zero
             /\ ret.metrics.v.monthly_income = float_zero
             /\ ret.metrics.v.burn_rate = float_zero
             /\ ret.metrics.v.runway_months.num = float_zero

\* runway_months, a quotient with a non-zero denominator, is 0.0.
RunwayIsZero == ret.metrics.v.runway_months.num = float_zero

\* C20 as stated: runway_months == 0 if and only if burn_rate == 0.
C20_RunwayZeroIffBurnZero ==
  Computed => (RunwayIsZero <=> ret.metrics.v.burn_rate = float_zero)

\* C20, amended: burn_rate == 0 implies runway_months == 0, and
\* runway_months == 0 exactly when burn_rate <= 0 or balance == 0.
C20_RunwayZeroIffNoBurnOrNoBalance ==
  Computed =>
    /\ ret.metrics.v.burn_rate = float_zero => RunwayIsZero
    /\ RunwayIsZero <=>
         \/ ~float_greater(ret.metrics.v.burn_rate, float_zero)
         \/ ret.financial_result.v = float_zero

\* Income but no spending: burn_rate and runway_months are both zero.
C20_Witness ==
  /\ Computed
  /\ Len(call.rows) = 3
  /\ ret.metrics.v.burn_rate = float_zero
  /\ float_greater(ret.financial_result.v, float_zero)
  /\ RunwayIsZero

\* C21: for every ledger snapshot the transaction API can have stored,
\* burn_rate, monthly_income and runway_months are all >= 0 (runway_months is
\* a quotient with a positive denominator).
C21_MetricsNonNegative ==
  Computed =>
    /\ ~ret.metrics.v.burn_rate.neg
    /\ ~ret.metrics.v.monthly_income.neg
    /\ ~ret.metrics.v.runway_months.num.neg
    /\ float_greater(ret.metrics.v.runway_months.den, float_zero)

\* What the deterministic stages compute from a ledger snapshot and a
\* purchase request alone, in a state that holds nothing else.
Deterministic(snapshot, purchase_data) ==
  LET clean == Merge(EmptyState, [extracted_transactions |-> snapshot,
                                  purchase_data |-> purchase_data])
      math == run_math_engine(clean).upd
  IN  [math |-> math, risk |-> analyze_purchase_risk(Merge(clean, math))]

\* The risk assessor of the run of task t has returned or raised.
RiskDone(t) ==
  /\ Executed(t, "analyze_purchase_risk")
  /\ st[t].intent = Some("evaluate_purchase")

RiskRaised(t) == pc[t] = "error" /\ raised[t].node = "analyze_purchase_risk"

\* C22: two evaluate_purchase runs given the same ledger snapshot and the
\* same extracted purchase request produce the same balance, the same metrics
\* and the same verdict (is_risky, reason, details), whatever their message
\* history, translated text and market context are: what a run produced is
\* what the deterministic stages compute from the snapshot and the request
\* alone, and two runs with equal snapshot and request agree.
C22_SameInputsSameVerdict ==
  /\ \A t \in Tasks :
       RiskDone(t) =>
         LET d == Deterministic(st[t].extracted_transactions, st[t].purchase_data)
         IN  /\ st[t].financial_result = d.math.financial_result
             /\ st[t].metrics = d.math.metrics
             /\ RiskRaised(t) <=> d.risk.raised
             /\ RiskRaised(t) => raised[t].exc = d.risk.exc
             /\ ~RiskRaised(t) => st[t].purchase_risk = d.risk.upd.purchase_risk
  /\ \A t1, t2 \in Tasks :
       (/\ RiskDone(t1) /\ RiskDone(t2)
        /\ st[t1].extracted_transactions = st[t2].extracted_transactions
        /\ st[t1].purchase_data = st[t2].purchase_data) =>
         /\ st[t1].financial_result = st[t2].financial_result
         /\ st[t1].metrics = st[t2].metrics
         /\ RiskRaised(t1) <=> RiskRaised(t2)
         /\ (~RiskRaised(t1)) => st[t1].purchase_risk = st[t2].purchase_risk

\* The second run of a session, with a longer history and a failed market
\* lookup, has its verdict.
C22_Witness ==
  \E t \in Tasks :
    /\ RiskDone(t) /\ pc[t] = "END"
    /\ Len(st[t].messages) >= 4
    /\ st[t].translated_text.v.lang = "en"
    /\ st[t].market_context = Some("Could not fetch market data due to search error.")
    /\ st[t].purchase_risk.v.reason = "dti_critical"
    /\ st[t].extracted_transactions.v # <<>>

\* run_math_engine was applied a second time.
Repeated == Computed /\ "again" \in DOMAIN ret

\* C23: the metrics engine is idempotent and free of side effects: applied
\* again to the state its result was merged into, it returns the same balance
\* and the same metrics; its update holds the balance and the metrics and
\* nothing else, so merging it leaves every other field, the snapshot
\* included, as it was.
C23_MetricsEngineIdempotent ==
  /\ (Computed /\ ~Repeated) =>
       LET before == Fetched(call.rows)
           after == Merge(before, ret)
       IN  /\ DOMAIN ret = {"financial_result", "metrics"}
           /\ \A c \in Channels \ {"financial_result", "metrics"} :
                after[c] = before[c]
           /\ after.extracted_transactions = Some(extracted(call.rows))
  /\ Repeated =>
       /\ DOMAIN ret.again = {"financial_result", "metrics"}
       /\ ret.again.financial_result = ret.financial_result
       /\ ret.again.metrics = ret.metrics

\* A snapshot with a non-zero balance was evaluated twice.
C23_Witness ==
  /\ Repeated
  /\ Len(call.rows) = MaxLen
  /\ ret.financial_result.v # float_zero
  /\ ret.again.metrics.v.runway_months.num # float_zero

\* The run of task t was started and has not invoked its first stage.
AtStart(t) == pc[t] = entry_point /\ trace[t] = <<>>

Unset == {Absent, PyNone}

\* C24: at the start of every run the derived fields of its state (intent,
\* ledger snapshot, balance, metrics, purchase request, market context, risk
\* verdict) are unset or empty: nothing an earlier run of the session wrote.
C24_DerivedFieldsUnsetAtStart ==
  \A t \in Tasks :
    AtStart(t) =>
      /\ st[t].intent \in Unset
      /\ st[t].extracted_transactions \in Unset \cup {Some(<<>>)}
      /\ st[t].financial_result \in Unset
      /\ st[t].metrics \in Unset
      /\ st[t].purchase_data \in Unset
      /\ st[t].market_context \in Unset
      /\ st[t].purchase_risk \in Unset

\* The channels each stage returns in its partial update.
Returns(node) ==
  CASE node = "translate_input" -> {"translated_text"}
    [] node = "analyze_intent" -> {"intent"}
    [] node = "fetch_ledger_data" -> {"extracted_transactions"}
    [] node = "run_math_engine" -> {"financial_result", "metrics"}
    [] node = "extract_purchase_info" -> {"purchase_data"}
    [] node = "fetch_market_price" -> {"market_context"}
    [] node = "analyze_purchase_risk" -> {"purchase_risk"}
    [] node = "generate_final_response" -> {"messages"}

\* C25: merging a stage's update replaces the fields the stage returns and
\* leaves every other field unchanged; the message history is only extended
\* at its end; within a run only generate_final_response appends to it (one
\* message, the reply), and a run starts from the session's history extended
\* by the request's message.
C25_Step ==
  \A t \in Tasks :
    /\ (pc[t] \in Nodes /\ trace'[t] = Append(trace[t], pc[t])) =>
         /\ \A c \in Channels \ Returns(pc[t]) : st'[t][c] = st[t][c]
         /\ pc'[t] = "error" => st'[t] = st[t]
         /\ pc'[t] # "error" =>
              /\ \A c \in Returns(pc[t]) \ {"messages"} : st'[t][c].k = "some"
              /\ pc[t] = "generate_final_response" =>
                   st'[t].messages = Append(st[t].messages, AIMessage(req[t]))
              /\ pc[t] = "run_math_engine" =>
                   /\ st'[t].financial_result = run_math_engine(st[t]).upd.financial_result
                   /\ st'[t].metrics = run_math_engine(st[t]).upd.metrics
    /\ (pc[t] = "idle" /\ pc'[t] = entry_point) =>
         \E th \in Threads :
           st'[t].messages = Append(checkpoint[th].messages, HumanMessage(req'[t]))
    /\ (pc[t] # "idle" /\ pc'[t] # "idle") =>
         IsPrefix(st[t].messages, st'[t].messages)

C25_MergeKeepsOtherFields == [][C25_Step]_vars

\* The second run of a session has appended its reply to a history of three.
C25_Witness ==
  \E t \in Tasks :
    /\ pc[t] = "END"
    /\ st[t].messages = <<HumanMessage(1), AIMessage(1), HumanMessage(2), AIMessage(2)>>

\* handle_message is running or has run.
Handling == call.fn = "handle_message" /\ ret # NoCall

\* The edit_text calls among the Telegram calls made so far.
Edits == {i \in 1..Len(ret.sent) : ret.sent[i].api = "edit_text"}

\* C26: the answer to a run that failed is the one error response of the
\* except branch, which carries no intent, no response text and nothing of
\* the run's state; the Telegram handler ends every message with exactly one
\* final edit, the reply with its intent after a 200 answer and an error text
\* otherwise.
C26_State ==
  Handling =>
    /\ (ret.http # NoResponse /\ call.ainvoke.raised /\ call.text # PyNone) =>
         /\ ret.http = [status |-> 500, detail |-> call.ainvoke.exc]
         /\ DOMAIN ret.http = {"status", "detail"}
    /\ Cardinality(Edits) <= 1
    /\ Edits # {} =>
         /\ Edits = {Len(ret.sent)}
         /\ ret.sent[Len(ret.sent)].text = ret.final_text.v
    /\ ret.final_text # Absent =>
         LET text == ret.final_text.v
             answered == call.post = "delivered" /\ ret.http.status = 200
         IN  /\ text.kind \in {"reply", "error"}
             /\ text.kind = "reply" <=> answered
             /\ text.kind = "reply" =>
                  /\ text.reply_text = AIMessage(call.text.v)
                  /\ text.intent = call.ainvoke.upd.intent.v
             /\ text.kind = "error" =>
                  DOMAIN text \subseteq {"kind", "text", "e"}
             /\ (call.text = PyNone \/ call.ainvoke.raised) => text.kind = "error"
    /\ ~ENABLED BotNext => Cardinality(Edits) = 1

C26_Step ==
  (Handling /\ Edits # {}) => (ret'.sent = ret.sent /\ ret'.final_text = ret.final_text)

RECURSIVE DecimalSum(_, _, _)
DecimalSum(rows, i, types) ==
  IF i = 0 THEN 0
  ELSE DecimalSum(rows, i - 1, types)
         + (IF rows[i].tx_type \in types THEN rows[i].amount ELSE 0)

\* C27: the metrics engine sums in exact decimal arithmetic: balance,
\* burn_rate and monthly_income are the exact decimal sums of the stored
\* amounts, converted to a float at most once, at the end.
C27_ExactDecimalSums ==
  Computed =>
    LET n == Len(call.rows)
        deposits == DecimalSum(call.rows, n, {"DEPOSIT"})
        spent == DecimalSum(call.rows, n, {"WITHDRAWAL", "SUBSCRIPTION"})
    IN  /\ ret.metrics.v.monthly_income = float_of_decimal(deposits)
        /\ ret.metrics.v.burn_rate = float_of_decimal(spent)
        /\ ret.financial_result.v = float_of_decimal(deposits - spent)

\* C28: whenever generate_final_response starts, every value it formats is
\* defined for the run's intent: the balance it formats with :.2f is a number
\* (an absent key reads as 0.0, None is no number), also in a general_chat
\* run, and in an evaluate_purchase run the purchase request and the verdict
\* it reads with .get are dicts.
C28_ComposerInputsDefined ==
  \A t \in Tasks :
    pc[t] = "generate_final_response" =>
      /\ Get(st[t].financial_result, Some(0)).k = "some"
      /\ ~compose_prompt(st[t]).raised
      /\ st[t].intent = Some("evaluate_purchase") =>
           /\ st[t].purchase_data # PyNone
           /\ st[t].purchase_risk # PyNone

\* C29: for every credit request with monthly_income > 0 and credit_months
\* >= 1 the verdict is never negative_cashflow: a request whose free cash
\* flow is below the monthly payment has dti > 0.8 and is dti_critical, so
\* the only credit verdicts with positive income are dti_critical and
\* manageable_credit.
C29_NoNegativeCashflowWithIncome ==
  (Assessed /\ CreditCall /\ call.monthly_income > 0) =>
    LET months == call.credit_months.v
        free == call.monthly_income - call.monthly_expenses
    IN  /\ ~ret.raised
        /\ ret.verdict.reason \in {"dti_critical", "manageable_credit"}
        /\ free * months < call.item_price =>
             HasVerdict(TRUE, "dti_critical")
        /\ ret.verdict.reason = "manageable_credit" =>
             free * months >= call.item_price

\* The payment exceeds the free cash flow of a positive income.
C29_Witness ==
  /\ Assessed /\ CreditCall
  /\ call.monthly_income > 0
  /\ call.monthly_expenses > 0
  /\ (call.monthly_income - call.monthly_expenses) * call.credit_months.v
       < call.item_price
  /\ call.item_price < call.monthly_income
  /\ HasVerdict(TRUE, "dti_critical")

RiskyReasons == {"critical_funds", "cashflow_warning", "dti_critical",
                 "negative_cashflow"}

\* C30: every verdict the risk assessor returns has is_risky true exactly
\* when its reason is critical_funds, cashflow_warning, dti_critical or
\* negative_cashflow, and false exactly when it is safe or manageable_credit;
\* an outright request yields critical_funds, cashflow_warning or safe, a
\* credit request dti_critical, negative_cashflow or manageable_credit.
C30_RiskyMatchesReason ==
  (Assessed /\ ~ret.raised) =>
    /\ DOMAIN ret.verdict = {"is_risky", "reason", "details"}
    /\ ret.verdict.is_risky \in BOOLEAN
    /\ ret.verdict.is_risky <=> ret.verdict.reason \in RiskyReasons
    /\ ~ret.verdict.is_risky <=>
         ret.verdict.reason \in {"safe", "manageable_credit"}
    /\ ~call.is_credit =>
         ret.verdict.reason \in {"critical_funds", "cashflow_warning", "safe"}
    /\ call.is_credit =>
         ret.verdict.reason \in {"dti_critical", "negative_cashflow",
                                 "manageable_credit"}

\* A credit request on a negative income is a negative cash flow, and risky.
C30_Witness ==
  /\ Assessed
  /\ call.is_credit
  /\ call.monthly_income < 0
  /\ ~ret.raised
  /\ ret.verdict.reason = "negative_cashflow"
  /\ ret.verdict.is_risky

\* The derived channels generate_final_response puts into the prompt of each
\* intent.
ComposerReads(intent) ==
  CASE intent = "evaluate_purchase" ->
         {"purchase_data", "financial_result", "purchase_risk", "market_context"}
    [] intent = "analyze_runway" -> {"financial_result", "metrics"}
    [] OTHER -> {"extracted_transactions", "financial_result"}

\* The channels the run of task t has written so far: those of its initial
\* state and those its stages returned (a stage that raised returned nothing).
WrittenThisRun(t) ==
  DOMAIN initial_state(req[t], st[t].user_id.v)
    \cup UNION {Returns(trace[t][i]) :
                  i \in {j \in 1..Len(trace[t]) :
                           ~(pc[t] = "error" /\ j = Len(trace[t]))}}

\* C31: after any sequence of runs on a session, every derived value
\* generate_final_response reads for the run's intent was written by a stage
\* of this run or by this run's initial state, not left in the checkpoint by
\* an earlier run; the balance and the metrics it reads are those of the
\* ledger as this run fetched it.
C31_ComposerReadsFreshValues ==
  \A t \in Tasks :
    pc[t] = "generate_final_response" =>
      /\ ComposerReads(st[t].intent.v) \subseteq WrittenThisRun(t)
      /\ st[t].intent \in LedgerIntents =>
           /\ st[t].extracted_transactions = Some(SelectUser(db, st[t].user_id.v))
           /\ st[t].financial_result = run_math_engine(st[t]).upd.financial_result
           /\ st[t].metrics = run_math_engine(st[t]).upd.metrics
      /\ st[t].intent = Some("evaluate_purchase") =>
           st[t].purchase_risk = analyze_purchase_risk(st[t]).upd.purchase_risk

\* A runway run is at the composer in a session whose checkpoint holds the
\* verdict and the market context of an earlier purchase run.
C31_Witness ==
  \E t \in Tasks :
    /\ pc[t] = "generate_final_response"
    /\ req[t] = 2
    /\ st[t].intent = Some("analyze_runway")
    /\ st[t].purchase_risk.k = "some"
    /\ st[t].market_context.k = "some"
    /\ st[t].metrics.k = "some"

\* The state of an evaluate_purchase run after run_math_engine, holding the
\* figures of the call.
AfterMath ==
  Merge(EmptyState,
        [intent |-> Some("evaluate_purchase"),
         financial_result |-> Some(call.current_balance),
         metrics |-> Some([burn_rate |-> call.monthly_expenses,
                           monthly_income |-> call.monthly_income,
                           runway_months |-> [num |-> 0, den |-> 1]])])

\* That state after the extractor has failed.
AfterFailedExtraction ==
  Merge(AfterMath, extract_purchase_info(AfterMath, [raises |-> TRUE]).upd)

\* The call is the one analyze_purchase_risk makes for the placeholder.
PlaceholderCall ==
  LET data == AfterFailedExtraction.purchase_data.v
  IN  /\ call.item_price = data.item_price
      /\ call.is_credit = data.is_credit
      /\ call.credit_months = data.credit_months

\* C32: after an extraction failure the request is the placeholder, an
\* outright purchase of price 0; the market provider is not invoked and the
\* market context is the fixed text for missing data; the risk assessor's
\* verdict for it is safe exactly when balance >= 0 and free cash flow >= 0,
\* critical_funds when balance < 0, and cashflow_warning when balance >= 0
\* and free cash flow < 0.
C32_PlaceholderVerdict ==
  (Assessed /\ PlaceholderCall) =>
    LET free == call.monthly_income - call.monthly_expenses
        s1 == AfterFailedExtraction
        s2 == Merge(s1, fetch_market_price(s1, "").upd)
    IN  /\ s1.purchase_data = Some(Purchase("unknown item", 0, FALSE, Some(1)))
        /\ market_search_skipped(s1)
        /\ \A out \in SearchOutcomes \cup {""} :
             fetch_market_price(s1, out)
               = Update([market_context |-> Some("No market data available.")])
        /\ ~ret.raised
        /\ analyze_purchase_risk(s2) = Update([purchase_risk |-> Some(ret.verdict)])
        /\ HasVerdict(FALSE, "safe") <=> (call.current_balance >= 0 /\ free >= 0)
        /\ call.current_balance < 0 => HasVerdict(TRUE, "critical_funds")
        /\ (call.current_balance >= 0 /\ free < 0) =>
             HasVerdict(TRUE, "cashflow_warning")

\* The placeholder on a non-negative balance with a negative free cash flow.
C32_Witness ==
  /\ Assessed /\ PlaceholderCall
  /\ call.current_balance >= 0
  /\ call.monthly_income - call.monthly_expenses < 0
  /\ HasVerdict(TRUE, "cashflow_warning")

\* The same in a run of the pipeline (specification Spec): when the extractor
\* failed the market provider is not called, and the verdict is the one for
\* the placeholder.
PlaceholderInTheRun ==
  \A t \in Tasks :
    (collab[t]["extractor"] = "failed") =>
      /\ collab[t]["market"] = "-"
      /\ Executed(t, "fetch_market_price") =>
           st[t].market_context = Some("No market data available.")
      /\ (Executed(t, "analyze_purchase_risk") /\ pc[t] # "error") =>
           /\ st[t].purchase_risk.v.reason
                = IF st[t].financial_result.v < 0 THEN "critical_funds" ELSE "safe"
      /\ ~RiskRaised(t)

\* The handler of task t answers its request in this step.
Answers(t) == pc[t] # "idle" /\ pc'[t] = "idle"

\* C33: after any sequence and interleaving of create_user and
\* create_transaction requests no two stored users have the same email and
\* every stored transaction references a stored user; a create_user whose
\* email is already stored answers 400, a create_transaction whose user is
\* not stored answers 404, and a request answered 400 or 404 writes nothing.
C33_State ==
  /\ \A i, j \in 1..Len(users) : users[i].email = users[j].email => i = j
  /\ \A i \in 1..Len(db) : UserStored(db[i].user_id)

C33_Step ==
  \A t \in Tasks :
    Answers(t) =>
      LET answer == response'[req[t]]
      IN  /\ (st[t].fn = "create_user" /\ EmailStored(st[t].email)) =>
               answer.status = 400
          /\ (st[t].fn = "create_transaction" /\ ~UserStored(st[t].user_id)) =>
               answer.status = 404
          /\ answer.status \in {400, 404} => (users' = users /\ db' = db)

C33_UniqueEmailsAndExistingUsers == []C33_State /\ [][C33_Step]_vars

====
